---- MODULE Spec2Model ----
(***************************************************************************)
(* Fix-verify-retry loop of the Python debug agent.                        *)
(*                                                                         *)
(*   DebugAgent.fix_file   (src/agent.py)   command-line repair of a file  *)
(*   fix_code              (app.py)         web-app repair of a text       *)
(*   CodeExecutor          (src/code_executor.py)                          *)
(*   extract_code, format_traceback, create_prompt (src/tools.py)          *)
(*   FileHandler           (src/file_handler.py)                           *)
(*   OllamaClient.generate (src/ollama_client.py)                          *)
(*                                                                         *)
(* A text is a sequence of tokens.  The tokens " ", "\n", ":" and the     *)
(* digits are single characters; "bq" is one backquote character; "py" is  *)
(* the six letters of the word python; "sur" is one character that the     *)
(* utf-8 codec cannot encode (a lone surrogate); every other token is a    *)
(* run of characters holding none of the former.  Substring search,        *)
(* slicing, stripping and splitting work on tokens exactly as the Python   *)
(* str methods work on characters.                                         *)
(***************************************************************************)
EXTENDS Integers, Sequences, FiniteSets, TLC

(***************************************************************************)
(* Bounds and program constants                                            *)
(***************************************************************************)
\* largest max_retries a DebugAgent is constructed with (0 .. MaxRetries)
MaxRetries == 3

\* a stderr text handed to the classifier has at most MaxLines lines
MaxLines == 3

\* a completion text handed to extraction is made of at most MaxPieces pieces
MaxPieces == 5

\* names the scratch directory can hold
MaxNames == 2

\* max_retries of the agents of two concurrent calls
ConcRetries == 2

\* runs of the web app's script in one browser session
MaxRuns == 3

\* CodeExecutor.__init__(timeout=10)
Timeout == 10

\* format_traceback keeps the last 10 lines
KeepLines == 10

(***************************************************************************)
(* Python values                                                           *)
(***************************************************************************)
\* Python's None where a text is expected: a one-token text no str can equal
None == <<"<None>">>

\* the empty str
Empty == <<>>

\* truthiness of an Optional[str]: None and "" are both falsy
Truthy(v) == v # None /\ v # Empty

Min(S) == CHOOSE m \in S : \A k \in S : m <= k

Max(S) == CHOOSE m \in S : \A k \in S : m >= k

(***************************************************************************)
(* str methods                                                             *)
(***************************************************************************)
Whitespace == {" ", "\n"}

\* s.find(sub, start): 0-based index of the first occurrence at or after
\* start, -1 when there is none
Find(s, sub, start) ==
    LET hits == {i \in start .. (Len(s) - Len(sub)) :
                    SubSeq(s, i + 1, i + Len(sub)) = sub}
    IN IF hits = {} THEN -1 ELSE Min(hits)

\* sub in s
Contains(s, sub) == Find(s, sub, 0) # -1

\* s[a:b] for 0 <= a, b <= len(s)
Slice(s, a, b) == SubSeq(s, a + 1, b)

\* s.strip()
Strip(s) ==
    LET keep == {i \in 1 .. Len(s) : s[i] \notin Whitespace}
    IN IF keep = {} THEN Empty ELSE SubSeq(s, Min(keep), Max(keep))

\* s.split('\n'): always at least one (possibly empty) piece
RECURSIVE SplitLines(_)
SplitLines(s) ==
    LET nl == Find(s, <<"\n">>, 0)
    IN IF nl = -1 THEN <<s>>
       ELSE <<Slice(s, 0, nl)>> \o SplitLines(Slice(s, nl + 1, Len(s)))

\* '\n'.join(lines)
RECURSIVE JoinLines(_)
JoinLines(lines) ==
    IF lines = <<>> THEN Empty
    ELSE IF Len(lines) = 1 THEN lines[1]
    ELSE lines[1] \o <<"\n">> \o JoinLines(Tail(lines))

\* s.split(':', 1): one piece when there is no colon, else two
SplitColon(s) ==
    LET c == Find(s, <<":">>, 0)
    IN IF c = -1 THEN <<s>> ELSE <<Slice(s, 0, c), Slice(s, c + 1, Len(s))>>

(***************************************************************************)
(* src/tools.py                                                            *)
(***************************************************************************)
Fence == <<"bq", "bq", "bq">>

FencePy == <<"bq", "bq", "bq", "py">>

\* extract_code with each block ending at the last closing marker
extract_code_Greedy(response) ==
    LET pyStart  == Find(response, FencePy, 0) + Len(FencePy)
        anyStart == Find(response, Fence, 0) + Len(Fence)
        last(from) == LET hits == {i \in from .. (Len(response) - Len(Fence)) :
                                     SubSeq(response, i + 1, i + Len(Fence)) = Fence}
                      IN IF hits = {} THEN -1 ELSE Max(hits)
    IN IF Contains(response, FencePy) /\ last(pyStart) # -1
          THEN Strip(Slice(response, pyStart, last(pyStart)))
       ELSE IF Contains(response, Fence) /\ last(anyStart) # -1
          THEN Strip(Slice(response, anyStart, last(anyStart)))
       ELSE Strip(response)

\* extract_code(response)
extract_code(response) ==
    LET pyStart  == Find(response, FencePy, 0) + Len(FencePy)
        pyEnd    == Find(response, Fence, pyStart)
        anyStart == Find(response, Fence, 0) + Len(Fence)
        anyEnd   == Find(response, Fence, anyStart)
    IN IF Contains(response, FencePy) /\ pyEnd # -1
          THEN Strip(Slice(response, pyStart, pyEnd))
       ELSE IF Contains(response, Fence) /\ anyEnd # -1
          THEN Strip(Slice(response, anyStart, anyEnd))
       ELSE Strip(response)

\* format_traceback(traceback): the last KeepLines lines of the stripped text
format_traceback(traceback) ==
    LET lines == SplitLines(Strip(traceback))
        kept  == IF Len(lines) > KeepLines
                    THEN SubSeq(lines, Len(lines) - KeepLines + 1, Len(lines))
                    ELSE lines
    IN JoinLines(kept)

\* create_prompt(task, code, error): the template two holes, in order
create_prompt(task, code, error) ==
    [task |-> task, code |-> code, error |-> error]

NoPrompt == [task |-> "none", code |-> Empty, error |-> Empty]

(***************************************************************************)
(* The child process: what the Python interpreter does with a source text  *)
(*   "ok"     a statement that runs and prints                             *)
(*   "raise"  a statement that raises NameError when run                   *)
(*   "py"     the bare name python: NameError when run                     *)
(*   "exit1"  sys.exit(1): exit status 1 and nothing on stderr             *)
(*   "loop"   while True: pass                                             *)
(*   "bin"    writes the byte 0xff to stdout: output that is not utf-8     *)
(*   "bq"     a backquote: the file does not compile (SyntaxError)         *)
(***************************************************************************)
NameErrorTrace ==
    <<"Traceback", "\n", "File", " ", "line", " ", "1", "\n",
      "NameError", ":", " ", "undefined">>

SyntaxErrorTrace ==
    <<"File", " ", "line", " ", "2", "\n", "SyntaxError", ":", " ", "invalid">>

\* str(e) of the OSError raised when the interpreter cannot be started
OSErrorText == <<"Errno", " ", "2">>

\* str(e) of the UnicodeDecodeError raised when the captured output of the
\* child is not text (text=True decodes it after the child has ended)
DecodeErrorText == <<"codec", " ", "cannot", " ", "decode", " ", "byte">>

Stoppers == {"raise", "py", "exit1", "loop"}

\* running the interpreter on a file holding text, with no time limit:
\* whether it ends, its exit status, what it wrote, and whether what it
\* wrote holds bytes that are not utf-8
PythonRun(text) ==
    LET stops   == {i \in 1 .. Len(text) : text[i] \in Stoppers}
        first   == Min(stops)
        ran(tok) == \E i \in 1 .. Len(text) :
                       text[i] = tok /\ (stops = {} \/ i < first)
        out     == IF ran("ok") THEN <<"out", "\n">> ELSE Empty
    IN IF \E i \in 1 .. Len(text) : text[i] = "bq"
          THEN [ends |-> TRUE, rc |-> 1, stdout |-> Empty,
                stderr |-> SyntaxErrorTrace, garbled |-> FALSE]
       ELSE IF stops = {}
          THEN [ends |-> TRUE, rc |-> 0, stdout |-> out, stderr |-> Empty,
                garbled |-> ran("bin")]
       ELSE IF text[first] = "loop"
          THEN [ends |-> FALSE, rc |-> 1, stdout |-> out, stderr |-> Empty,
                garbled |-> ran("bin")]
       ELSE IF text[first] = "exit1"
          THEN [ends |-> TRUE, rc |-> 1, stdout |-> out, stderr |-> Empty,
                garbled |-> ran("bin")]
       ELSE [ends |-> TRUE, rc |-> 1, stdout |-> out,
             stderr |-> NameErrorTrace, garbled |-> ran("bin")]

\* subprocess.run([sys.executable, file], capture_output, text, timeout):
\* a CompletedProcess, or TimeoutExpired, or the OSError of a failed spawn,
\* or the UnicodeDecodeError of an output that cannot be decoded
SubprocessRun(text, env) ==
    LET p == PythonRun(text)
    IN IF env = "nospawn"
          THEN [kind |-> "OSError", rc |-> 1, stdout |-> Empty,
                stderr |-> Empty, msg |-> OSErrorText]
       ELSE IF ~p.ends
          THEN [kind |-> "TimeoutExpired", rc |-> 1, stdout |-> Empty,
                stderr |-> Empty, msg |-> Empty]
       ELSE IF p.garbled
          THEN [kind |-> "UnicodeDecodeError", rc |-> p.rc, stdout |-> Empty,
                stderr |-> Empty, msg |-> DecodeErrorText]
       ELSE [kind |-> "completed", rc |-> p.rc, stdout |-> p.stdout,
             stderr |-> p.stderr, msg |-> Empty]

(***************************************************************************)
(* src/code_executor.py                                                    *)
(*   an execution returns                                                  *)
(*     success, stdout, stderr  the tuple returned (when not raised)       *)
(*     raised    the call raised instead of returning                      *)
(*     leftover  the scratch file the call created still exists            *)
(*     spawns    the number of subprocess.run calls made                   *)
(***************************************************************************)
TimeoutMsg ==
    <<"Execution", " ", "timed", " ", "out", " ", "after", " ",
      ToString(Timeout), " ", "seconds">>

\* f"Execution error: {str(e)}"
ErrorMsg(text) == <<"Execution", " ", "error", ":", " ">> \o text

\* CodeExecutor.execute_file(filepath), the file holding content
execute_file(content, env) ==
    LET result == SubprocessRun(content, env)
    IN IF result.kind = "completed"
          THEN [success |-> result.rc = 0, stdout |-> result.stdout,
                stderr |-> result.stderr, raised |-> FALSE,
                leftover |-> FALSE, spawns |-> 1]
       ELSE IF result.kind = "TimeoutExpired"
          THEN [success |-> FALSE, stdout |-> Empty, stderr |-> TimeoutMsg,
                raised |-> FALSE, leftover |-> FALSE, spawns |-> 1]
       ELSE [success |-> FALSE, stdout |-> Empty, stderr |-> ErrorMsg(result.msg),
             raised |-> FALSE, leftover |-> FALSE, spawns |-> 1]

\* tmp_file.write(code) raises: TypeError for None, UnicodeEncodeError for a
\* character utf-8 cannot encode
WriteRaises(code) == code = None \/ \E i \in 1 .. Len(code) : code[i] = "sur"

\* CodeExecutor.execute_code(code): the scratch file is created by
\* NamedTemporaryFile(delete=False); the try/finally that unlinks it starts
\* only after the with block that writes it
execute_code(code, env) ==
    IF WriteRaises(code)
       THEN [success |-> FALSE, stdout |-> Empty, stderr |-> Empty,
             raised |-> TRUE, leftover |-> TRUE, spawns |-> 0]
    ELSE execute_file(code, env)

NoLine == -1

Digits == {"0", "1", "2", "3", "4", "5", "6", "7", "8", "9"}

DigitVal(d) ==
    CASE d = "0" -> 0 [] d = "1" -> 1 [] d = "2" -> 2 [] d = "3" -> 3
      [] d = "4" -> 4 [] d = "5" -> 5 [] d = "6" -> 6 [] d = "7" -> 7
      [] d = "8" -> 8 [] d = "9" -> 9

\* tokens in which the substring occurs
HasError(tok) == tok \in {"Error", "NameError", "SyntaxError", "ZeroDivisionError"}

HasException(tok) == tok \in {"Exception"}

HasWarning(tok) == tok \in {"Warning", "DeprecationWarning"}

\* 'line' in tok.lower()
LowerHasLine(tok) == tok \in {"line", "Line", "LINE"}

\* ':' in line and any(err in line for err in ['Error', 'Exception', 'Warning'])
IsErrorLine(line) ==
    /\ Contains(line, <<":">>)
    /\ \E i \in 1 .. Len(line) :
          HasError(line[i]) \/ HasException(line[i]) \/ HasWarning(line[i])

\* int(re.search(r'line (\d+)', line).group(1)), NoLine when nothing matches
RECURSIVE DigitsValue(_, _, _)
DigitsValue(line, i, acc) ==
    IF i <= Len(line) /\ line[i] \in Digits
       THEN DigitsValue(line, i + 1, 10 * acc + DigitVal(line[i]))
       ELSE acc

LineMatch(line) ==
    LET hits == {i \in 1 .. Len(line) - 2 :
                    line[i] = "line" /\ line[i + 1] = " " /\ line[i + 2] \in Digits}
    IN IF hits = {} THEN NoLine ELSE DigitsValue(line, Min(hits) + 2, 0)

\* CodeExecutor.parse_error(stderr)
parse_error(stderr) ==
    IF stderr = Empty
       THEN [type |-> <<"NoError">>, message |-> Empty, traceback |-> Empty]
    ELSE
       LET lines  == SplitLines(Strip(stderr))
           marked == {i \in 1 .. Len(lines) : IsErrorLine(lines[i])}
           parts  == SplitColon(lines[Max(marked)])
           \* the second loop has no break: the last matching line wins
           nums   == {i \in 1 .. Len(lines) :
                         /\ \E k \in 1 .. Len(lines[i]) : LowerHasLine(lines[i][k])
                         /\ LineMatch(lines[i]) # NoLine}
       IN [type      |-> IF marked = {} THEN <<"Unknown">> ELSE Strip(parts[1]),
           message   |-> IF marked = {} THEN Empty
                         ELSE IF Len(parts) > 1 THEN Strip(parts[2]) ELSE Empty,
           traceback |-> stderr,
           line      |-> IF nums = {} THEN NoLine ELSE LineMatch(lines[Max(nums)])]

(***************************************************************************)
(* src/file_handler.py: the target file and its .py.bak backup             *)
(***************************************************************************)
\* a path at which no file exists
NoFile == <<"<NoFile>">>

\* FileHandler.read_file(filepath): the content, None when there is no file
read_file(fs) == IF fs.target = NoFile THEN None ELSE fs.target

\* what the file system does during one write_file call
IOs == {"ok", "rename_fails", "open_fails"}

\* f.write(content) raises: content that is not a str or that utf-8 cannot
\* encode
FileWriteRaises(content) ==
    content = <<"<None>">> \/ \E i \in 1 .. Len(content) : content[i] = "sur"

\* write_file without the rename to the backup path
write_file_InPlace(fs, content, io) ==
    IF io = "open_fails" THEN [ok |-> FALSE, fs |-> fs]
    ELSE IF FileWriteRaises(content)
       THEN [ok |-> FALSE, fs |-> [fs EXCEPT !.target = <<>>]]
    ELSE [ok |-> TRUE, fs |-> [fs EXCEPT !.target = content]]

\* FileHandler.write_file(filepath, content, backup=True): rename to the
\* backup path, open the target for writing (an empty file from then on),
\* write
write_file(fs, content, io) ==
    LET exists  == fs.target # NoFile
        renamed == IF exists
                      THEN [target |-> NoFile, backup |-> fs.target]
                      ELSE fs
    IN IF exists /\ io = "rename_fails" THEN [ok |-> FALSE, fs |-> fs]
       ELSE IF io = "open_fails" THEN [ok |-> FALSE, fs |-> renamed]
       ELSE IF FileWriteRaises(content)
          THEN [ok |-> FALSE, fs |-> [renamed EXCEPT !.target = <<>>]]
       ELSE [ok |-> TRUE, fs |-> [renamed EXCEPT !.target = content]]

(***************************************************************************)
(* The completion service                                                  *)
(***************************************************************************)
\* the call to the service raised
ServiceError == <<"<ServiceError>">>

RespPyOk == FencePy \o <<"\n", "ok", "\n">> \o Fence

RespPyRaise ==
    <<"FIXED", " ">> \o FencePy \o <<"\n", "raise", "\n">> \o Fence
       \o <<"\n", "EXPLANATION", ":", " ", "why">>

RespPlainExit == Fence \o <<"\n", "exit1", "\n">> \o Fence

RespRawLoop == <<" ", "loop", "\n">>

RespEmptyBlock == FencePy \o <<"\n">> \o Fence

RespUnclosed == FencePy \o <<"\n", "ok">>

RespSur == <<"sur">>

RespRawBin == <<"bin", "\n">>

Replies ==
    {RespPyOk, RespPyRaise, RespPlainExit, RespRawLoop, RespEmptyBlock,
     RespUnclosed, RespSur, RespRawBin}

\* OllamaClient.generate(prompt, stream=False): "" when the call raised
generate(reply) == IF reply = ServiceError THEN Empty ELSE reply

\* DebugAgent._attempt_fix(code, error), the service answering reply
attempt_fix(reply) ==
    LET response == generate(reply)
    IN IF ~Truthy(response) THEN None ELSE extract_code(response)

(***************************************************************************)
(* app.py                                                                  *)
(***************************************************************************)
AppTimeoutMsg == <<"Execution", " ", "timeout">>

\* execute_code(code) of the web app: os.unlink runs only after
\* subprocess.run returned
app_execute_code(code, env) ==
    LET result == SubprocessRun(code, env)
    IN IF WriteRaises(code)
          THEN [success |-> FALSE, stdout |-> Empty, stderr |-> <<"codec">>,
                raised |-> FALSE, leftover |-> TRUE, spawns |-> 0]
       ELSE IF result.kind = "completed"
          THEN [success |-> result.rc = 0, stdout |-> result.stdout,
                stderr |-> result.stderr, raised |-> FALSE,
                leftover |-> FALSE, spawns |-> 1]
       ELSE IF result.kind = "TimeoutExpired"
          THEN [success |-> FALSE, stdout |-> Empty, stderr |-> AppTimeoutMsg,
                raised |-> FALSE, leftover |-> TRUE, spawns |-> 1]
       ELSE [success |-> FALSE, stdout |-> Empty, stderr |-> result.msg,
             raised |-> FALSE, leftover |-> TRUE, spawns |-> 1]

\* fix_code: error_type and error_message from stderr
app_parse(stderr) ==
    LET lines  == SplitLines(Strip(stderr))
        marked == {i \in 1 .. Len(lines) :
                      /\ Contains(lines[i], <<":">>)
                      /\ \E k \in 1 .. Len(lines[i]) :
                            HasError(lines[i][k]) \/ HasException(lines[i][k])}
        parts  == SplitColon(lines[Max(marked)])
    IN [error_type    |-> IF marked = {} THEN <<"Unknown">> ELSE Strip(parts[1]),
        error_message |-> IF marked = {} THEN stderr
                          ELSE IF Len(parts) > 1 THEN Strip(parts[2]) ELSE Empty]

\* fix_code: the fixed code taken from the response, the submitted code when
\* the response holds no complete python block
app_extract(response_text, code) ==
    LET start == Find(response_text, FencePy, 0) + Len(FencePy)
        end   == Find(response_text, Fence, start)
    IN IF Contains(response_text, FencePy) /\ end # -1
          THEN Strip(Slice(response_text, start, end))
          ELSE code

ExplanationMark == <<"EXPLANATION", ":">>

\* fix_code: response_text.split("EXPLANATION:")[1].strip()
app_explanation(response_text) ==
    LET first == Find(response_text, ExplanationMark, 0)
        from  == first + Len(ExplanationMark)
        next  == Find(response_text, ExplanationMark, from)
    IN IF first = -1 THEN Empty
       ELSE Strip(Slice(response_text, from,
                        IF next = -1 THEN Len(response_text) ELSE next))

(***************************************************************************)
(* State of one repair call                                                *)
(***************************************************************************)
VARIABLES
    mode,         \* "cli": DebugAgent.fix_file; "web": fix_code
    env,          \* "ok", or "nospawn": the interpreter cannot be started
    max_retries,  \* DebugAgent.max_retries
    auto_apply,   \* fix_file's auto_apply argument
    fs,           \* the target file and its backup
    pc,           \* position in fix_file / fix_code
    code,         \* the source text under repair
    stderr,       \* stderr of the original execution
    fixed_code,   \* the current candidate
    is_valid,     \* outcome of the last candidate execution
    test_stderr,  \* stderr of the last candidate execution
    attempt,      \* index of the retry loop
    prompt,       \* the last prompt sent to the completion service
    explanation,  \* fix_code's explanation
    llmCalls,     \* requests made to the completion service
    execLog,      \* every execution made, in order
    tmpCount,     \* scratch files created so far
    scratch,      \* scratch files that still exist
    asked,        \* confirm_action was called
    confirmed,    \* confirm_action returned True
    result,       \* fix_file: "none", "True", "False" or the exception raised
    outcome,      \* fix_code: the record returned
    shown         \* the text the results view presents as the fixed code

\* the variables of one repair call
callVars ==
    <<mode, env, max_retries, auto_apply, fs, pc, code, stderr, fixed_code,
      is_valid, test_stderr, attempt, prompt, explanation, llmCalls, execLog,
      tmpCount, scratch, asked, confirmed, result, outcome, shown>>

\* one application of a function of the program to a text
VARIABLES
    fn,           \* the function applied, "none" before the application
    arg,          \* the text it is applied to
    sub,          \* fix_code: the submitted code (the fallback of extraction)
    ret           \* the value returned

fnVars == <<fn, arg, sub, ret>>

\* one run of the command-line entry point
VARIABLES
    cmd,          \* the operation the arguments select
    perm,         \* "denied": the file exists and cannot be opened for reading
    mpc,          \* position in main
    exit,         \* the exit code main returned, NoExit before it returns
    events        \* what went wrong during the run

mainVars == <<cmd, perm, mpc, exit, events>>

\* two fix_file calls running at the same time on different files
VARIABLES
    tmpdir,       \* the directory of scratch files: what each name holds
    calls         \* the state of each call

concVars == <<tmpdir, calls>>

\* the variables a repair call leaves alone
\* the web app: one browser session of the Streamlit script
VARIABLES
    session,      \* st.session_state: a function from its keys to values
    names,        \* global names bound so far in the current run of the script
    at,           \* position of the current run in the script
    run,          \* the widgets' values in the current run and what it did
    nruns         \* runs of the script started so far

webVars == <<session, names, at, run, nruns>>

others == <<fnVars, mainVars, concVars, webVars>>

vars == <<callVars, others>>

\* no run of the script yet
NoRun ==
    [api_key |-> <<>>, pressed |-> "none", code |-> <<>>, before |-> <<>>,
     called |-> <<>>, error |-> "none"]

\* the web app is not in use
WebIdle ==
    /\ session = <<>>
    /\ names = {}
    /\ at = "off"
    /\ run = NoRun
    /\ nruns = 0

\* no function application is under way
FnIdle == fn = "none" /\ arg = None /\ sub = None /\ ret = None

\* main has not returned
NoExit == -1

\* DebugAgent.__init__(max_retries=3), as main constructs the agent
DefaultRetries == 3

\* the names NamedTemporaryFile can give a scratch file
TmpNames == 1 .. MaxNames

\* the concurrent calls
Calls == {1, 2}

\* no file has this name
Absent == [content |-> NoFile, owner |-> 0]

\* no concurrent call is under way
ConcIdle ==
    /\ tmpdir = [n \in TmpNames |-> Absent]
    /\ calls = [c \in Calls |-> [pc |-> "idle"]]

\* main is not running
MainIdle ==
    /\ cmd = "none"
    /\ perm = "readable"
    /\ mpc = "idle"
    /\ exit = NoExit
    /\ events = {}

\* contents of the file handed to fix_file, texts submitted to the web app
Sources == {Empty, <<"ok">>, <<"raise">>, <<"exit1">>, <<"loop">>, <<"bin">>}

NoOutcome == [has_error |-> FALSE, fixed_code |-> None, pending |-> TRUE]

Init ==
    /\ mode \in {"cli", "web"}
    /\ env \in {"ok", "nospawn"}
    /\ max_retries \in 0 .. MaxRetries
    /\ auto_apply \in BOOLEAN
    /\ \E src \in Sources \cup {NoFile} :
          /\ mode = "web" => src # NoFile /\ max_retries = 0 /\ ~auto_apply
          /\ fs = [target |-> IF mode = "cli" THEN src ELSE NoFile,
                   backup |-> NoFile]
          /\ code = IF mode = "web" THEN src ELSE None
    /\ pc = "start"
    /\ stderr = Empty
    /\ fixed_code = None
    /\ is_valid = FALSE
    /\ test_stderr = Empty
    /\ attempt = 0
    /\ prompt = NoPrompt
    /\ explanation = Empty
    /\ llmCalls = 0
    /\ execLog = <<>>
    /\ tmpCount = 0
    /\ scratch = {}
    /\ asked = FALSE
    /\ confirmed = FALSE
    /\ result = "none"
    /\ outcome = NoOutcome
    /\ shown = None
    /\ FnIdle
    /\ MainIdle
    /\ ConcIdle
    /\ WebIdle

\* one entry of execLog
LogEntry(what, text, r) ==
    [what |-> what, text |-> text, r |-> r, after |-> llmCalls]

\* the exception tmp_file.write raises for this code
WriteException(c) == IF c = None THEN "TypeError" ELSE "UnicodeEncodeError"

\* for attempt in range(self.max_retries - 1)
LoopContinues(i, retries) == i < retries - 1

(***************************************************************************)
(* DebugAgent.fix_file                                                     *)
(***************************************************************************)
\* agent.py 59-62: read the file; return False when there is nothing to fix
FixRead ==
    /\ mode = "cli" /\ pc = "start"
    /\ code' = read_file(fs)
    /\ IF ~Truthy(code')
          THEN result' = "False" /\ pc' = "done"
          ELSE result' = result /\ pc' = "execute"
    /\ UNCHANGED others
    /\ UNCHANGED <<mode, env, max_retries, auto_apply, fs, stderr, fixed_code,
                   is_valid, test_stderr, attempt, prompt, explanation,
                   llmCalls, execLog, tmpCount, scratch, asked, confirmed, outcome, shown>>

\* agent.py 64-69: execute the file; return True when it runs
FixExecute ==
    /\ mode = "cli" /\ pc = "execute"
    /\ LET r == execute_file(code, env)
       IN /\ execLog' = Append(execLog, LogEntry("original", code, r))
          /\ stderr' = r.stderr
          /\ IF r.success
                THEN result' = "True" /\ pc' = "done"
                ELSE result' = result /\ pc' = "parse"
    /\ UNCHANGED others
    /\ UNCHANGED <<mode, env, max_retries, auto_apply, fs, code, fixed_code,
                   is_valid, test_stderr, attempt, prompt, explanation,
                   llmCalls, tmpCount, scratch, asked, confirmed, outcome, shown>>

\* agent.py 71-80: classify stderr and print the type, message and line
FixParse ==
    /\ mode = "cli" /\ pc = "parse"
    /\ LET error_info == parse_error(stderr)
       IN IF {"type", "message", "line"} \subseteq DOMAIN error_info
             THEN result' = result /\ pc' = "attempt"
             ELSE result' = "KeyError" /\ pc' = "done"
    /\ UNCHANGED others
    /\ UNCHANGED <<mode, env, max_retries, auto_apply, fs, code, stderr,
                   fixed_code, is_valid, test_stderr, attempt, prompt,
                   explanation, llmCalls, execLog, tmpCount, scratch, asked, confirmed,
                   outcome, shown>>

\* agent.py 82-87: the first request for a fix
FixAttempt ==
    /\ mode = "cli" /\ pc = "attempt"
    /\ \E reply \in Replies \cup {ServiceError} :
          /\ prompt' = create_prompt("fix", code, format_traceback(stderr))
          /\ llmCalls' = llmCalls + 1
          /\ fixed_code' = attempt_fix(reply)
          /\ IF ~Truthy(fixed_code')
                THEN result' = "False" /\ pc' = "done"
                ELSE result' = result /\ pc' = "verify"
    /\ UNCHANGED others
    /\ UNCHANGED <<mode, env, max_retries, auto_apply, fs, code, stderr,
                   is_valid, test_stderr, attempt, explanation, execLog,
                   tmpCount, scratch, asked, confirmed, outcome, shown>>

\* agent.py 89-94: execute the first candidate
FixVerify ==
    /\ mode = "cli" /\ pc = "verify"
    /\ LET r == execute_code(fixed_code, env)
       IN /\ execLog' = Append(execLog, LogEntry("candidate", fixed_code, r))
          /\ tmpCount' = tmpCount + 1
          /\ scratch' = IF r.leftover THEN scratch \cup {tmpCount + 1} ELSE scratch
          /\ IF r.raised
                THEN /\ result' = WriteException(fixed_code)
                     /\ pc' = "done"
                     /\ UNCHANGED <<is_valid, test_stderr>>
                ELSE /\ is_valid' = r.success
                     /\ test_stderr' = r.stderr
                     /\ result' = result
                     /\ pc' = IF r.success THEN "check" ELSE "loop"
    /\ attempt' = 0
    /\ UNCHANGED others
    /\ UNCHANGED <<mode, env, max_retries, auto_apply, fs, code, stderr,
                   fixed_code, prompt, explanation, llmCalls, asked, confirmed, outcome,
                   shown>>

\* the retry fed with the original source and the original error instead
FixRetry_FromOriginal ==
    /\ mode = "cli" /\ pc = "loop"
    /\ LoopContinues(attempt, max_retries)
    /\ \E reply \in Replies \cup {ServiceError} :
          /\ prompt' = create_prompt("fix", code, format_traceback(stderr))
          /\ llmCalls' = llmCalls + 1
          /\ fixed_code' = attempt_fix(reply)
    /\ pc' = "reverify"
    /\ UNCHANGED others
    /\ UNCHANGED <<mode, env, max_retries, auto_apply, fs, code, stderr,
                   is_valid, test_stderr, attempt, explanation, execLog,
                   tmpCount, scratch, asked, confirmed, result, outcome, shown>>

\* agent.py 97-102: one more request, fed with the last candidate and its error
FixRetry ==
    /\ mode = "cli" /\ pc = "loop"
    /\ LoopContinues(attempt, max_retries)
    /\ \E reply \in Replies \cup {ServiceError} :
          /\ prompt' = create_prompt("fix", fixed_code,
                          <<"Previous", " ", "fix", " ", "failed", " ", "with",
                            ":", " ">> \o test_stderr)
          /\ llmCalls' = llmCalls + 1
          /\ fixed_code' = attempt_fix(reply)
    /\ pc' = "reverify"
    /\ UNCHANGED others
    /\ UNCHANGED <<mode, env, max_retries, auto_apply, fs, code, stderr,
                   is_valid, test_stderr, attempt, explanation, execLog,
                   tmpCount, scratch, asked, confirmed, result, outcome, shown>>

\* agent.py 104-107: execute the retry's candidate; break when it runs
FixReverify ==
    /\ mode = "cli" /\ pc = "reverify"
    /\ LET r == execute_code(fixed_code, env)
       IN /\ execLog' = Append(execLog, LogEntry("candidate", fixed_code, r))
          /\ tmpCount' = tmpCount + 1
          /\ scratch' = IF r.leftover THEN scratch \cup {tmpCount + 1} ELSE scratch
          /\ IF r.raised
                THEN /\ result' = WriteException(fixed_code)
                     /\ pc' = "done"
                     /\ UNCHANGED <<is_valid, test_stderr, attempt>>
                ELSE /\ is_valid' = r.success
                     /\ test_stderr' = r.stderr
                     /\ result' = result
                     /\ IF r.success
                           THEN pc' = "check" /\ attempt' = attempt
                           ELSE pc' = "loop" /\ attempt' = attempt + 1
    /\ UNCHANGED others
    /\ UNCHANGED <<mode, env, max_retries, auto_apply, fs, code, stderr,
                   fixed_code, prompt, explanation, llmCalls, asked, confirmed, outcome,
                   shown>>

\* agent.py 97: the range is exhausted
FixLoopEnd ==
    /\ mode = "cli" /\ pc = "loop"
    /\ ~LoopContinues(attempt, max_retries)
    /\ pc' = "check"
    /\ UNCHANGED others
    /\ UNCHANGED <<mode, env, max_retries, auto_apply, fs, code, stderr,
                   fixed_code, is_valid, test_stderr, attempt, prompt,
                   explanation, llmCalls, execLog, tmpCount, scratch, asked, confirmed,
                   result, outcome, shown>>

\* fix_file trusting the candidate: no test of is_valid before applying
FixCheck_Unchecked ==
    /\ mode = "cli" /\ pc = "check"
    /\ pc' = "apply"
    /\ UNCHANGED others
    /\ UNCHANGED <<mode, env, max_retries, auto_apply, fs, code, stderr,
                   fixed_code, is_valid, test_stderr, attempt, prompt,
                   explanation, llmCalls, execLog, tmpCount, scratch, asked, confirmed,
                   result, outcome, shown>>

\* agent.py 109-114: give up unless the last candidate ran
FixCheck ==
    /\ mode = "cli" /\ pc = "check"
    /\ IF ~is_valid
          THEN result' = "False" /\ pc' = "done"
          ELSE result' = result /\ pc' = "apply"
    /\ UNCHANGED others
    /\ UNCHANGED <<mode, env, max_retries, auto_apply, fs, code, stderr,
                   fixed_code, is_valid, test_stderr, attempt, prompt,
                   explanation, llmCalls, execLog, tmpCount, scratch, asked, confirmed,
                   outcome, shown>>

\* the candidate written whatever confirm_action returned
FixApply_Unasked ==
    /\ mode = "cli" /\ pc = "apply"
    /\ \E confirm \in BOOLEAN, io \in IOs :
          /\ auto_apply => ~confirm
          /\ asked' = ~auto_apply
          /\ confirmed' = confirm
          /\ LET w == write_file(fs, fixed_code, io)
             IN /\ fs' = w.fs
                /\ result' = IF w.ok THEN "True" ELSE "False"
    /\ pc' = "done"
    /\ UNCHANGED others
    /\ UNCHANGED <<mode, env, max_retries, auto_apply, code, stderr,
                   fixed_code, is_valid, test_stderr, attempt, prompt,
                   explanation, llmCalls, execLog, tmpCount, scratch, outcome,
                   shown>>

\* agent.py 116-125: write the candidate when auto_apply or the user agrees
FixApply ==
    /\ mode = "cli" /\ pc = "apply"
    /\ \E confirm \in BOOLEAN, io \in IOs :
          /\ auto_apply => ~confirm
          /\ asked' = ~auto_apply
          /\ confirmed' = confirm
          /\ IF auto_apply \/ confirm
                THEN LET w == write_file(fs, fixed_code, io)
                     IN /\ fs' = w.fs
                        /\ result' = IF w.ok THEN "True" ELSE "False"
                ELSE /\ io = "ok"
                     /\ fs' = fs
                     /\ result' = "False"
    /\ pc' = "done"
    /\ UNCHANGED others
    /\ UNCHANGED <<mode, env, max_retries, auto_apply, code, stderr,
                   fixed_code, is_valid, test_stderr, attempt, prompt,
                   explanation, llmCalls, execLog, tmpCount, scratch, outcome,
                   shown>>

(***************************************************************************)
(* fix_code and the results view of the web app                            *)
(***************************************************************************)
\* app.py 274-296: execute the submitted code; return at once when it runs
WebExecute ==
    /\ mode = "web" /\ pc = "start"
    /\ LET r == app_execute_code(code, env)
       IN /\ execLog' = Append(execLog, LogEntry("original", code, r))
          /\ tmpCount' = tmpCount + 1
          /\ scratch' = IF r.leftover THEN scratch \cup {tmpCount + 1} ELSE scratch
          /\ stderr' = r.stderr
          /\ IF r.success
                THEN /\ outcome' = [has_error |-> FALSE, fixed_code |-> code,
                                    error_type |-> None, error_message |-> None]
                     /\ pc' = "render"
                ELSE /\ outcome' = outcome
                     /\ pc' = "generate"
    /\ UNCHANGED others
    /\ UNCHANGED <<mode, env, max_retries, auto_apply, fs, code, fixed_code,
                   is_valid, test_stderr, attempt, prompt, explanation,
                   llmCalls, asked, confirmed, result, shown>>

\* app.py 298-341 and 355-363: one request; the fixed code and the
\* explanation are cut out of the response
WebGenerate ==
    /\ mode = "web" /\ pc = "generate"
    /\ \E reply \in Replies \cup {ServiceError} :
          /\ prompt' = create_prompt("fix", code, stderr)
          /\ llmCalls' = llmCalls + 1
          /\ IF reply = ServiceError
                THEN /\ outcome' =
                          [has_error     |-> TRUE,
                           fixed_code    |-> None,
                           error_type    |-> app_parse(stderr).error_type,
                           error_message |-> app_parse(stderr).error_message,
                           explanation   |-> <<"Failed", " ", "to", " ",
                                               "generate", " ", "fix">>]
                     /\ pc' = "render"
                     /\ UNCHANGED <<fixed_code, explanation>>
                ELSE /\ fixed_code' = app_extract(reply, code)
                     /\ explanation' = app_explanation(reply)
                     /\ outcome' = outcome
                     /\ pc' = "webverify"
    /\ UNCHANGED others
    /\ UNCHANGED <<mode, env, max_retries, auto_apply, fs, code, stderr,
                   is_valid, test_stderr, attempt, execLog, tmpCount, scratch,
                   asked, confirmed, result, shown>>

\* app.py 343-353: execute the fixed code and return the record
WebVerify ==
    /\ mode = "web" /\ pc = "webverify"
    /\ LET verify_result == app_execute_code(fixed_code, env)
       IN /\ execLog' = Append(execLog,
                               LogEntry("candidate", fixed_code, verify_result))
          /\ tmpCount' = tmpCount + 1
          /\ scratch' = IF verify_result.leftover
                           THEN scratch \cup {tmpCount + 1} ELSE scratch
          /\ is_valid' = verify_result.success
          /\ test_stderr' = verify_result.stderr
          /\ outcome' = [has_error     |-> TRUE,
                         fixed_code    |-> fixed_code,
                         error_type    |-> app_parse(stderr).error_type,
                         error_message |-> app_parse(stderr).error_message,
                         explanation   |-> explanation,
                         fix_verified  |-> verify_result.success]
    /\ pc' = "render"
    /\ UNCHANGED others
    /\ UNCHANGED <<mode, env, max_retries, auto_apply, fs, code, stderr,
                   fixed_code, attempt, prompt, explanation, llmCalls, asked, confirmed,
                   result, shown>>

\* what app.py 209-232 presents under "Fixed Code" and offers for download
Presented(res) ==
    IF res.has_error /\ Truthy(res.fixed_code) THEN res.fixed_code ELSE None

\* app.py 187-232: the results view
WebRender ==
    /\ mode = "web" /\ pc = "render"
    /\ shown' = Presented(outcome)
    /\ pc' = "done"
    /\ UNCHANGED others
    /\ UNCHANGED <<mode, env, max_retries, auto_apply, fs, code, stderr,
                   fixed_code, is_valid, test_stderr, attempt, prompt,
                   explanation, llmCalls, execLog, tmpCount, scratch, asked, confirmed,
                   result, outcome>>

Next ==
    \/ FixRead
    \/ FixExecute
    \/ FixParse
    \/ FixAttempt
    \/ FixVerify
    \/ FixRetry
    \/ FixReverify
    \/ FixLoopEnd
    \/ FixCheck
    \/ FixApply
    \/ WebExecute
    \/ WebGenerate
    \/ WebVerify
    \/ WebRender

Spec == Init /\ [][Next]_vars

(***************************************************************************)
(* Applications of parse_error, extract_code and of their counterparts in  *)
(* fix_code to texts: a second specification, in which no repair call runs *)
(***************************************************************************)
\* lines a stderr text can hold
StderrLines ==
    {<<"ZeroDivisionError", ":", " ", "division", " ", "by", " ", "zero">>,
     <<"Traceback">>,
     <<" ", "File", " ", "line", " ", "3">>,
     <<"Line", " ", "7", ":", " ", "note">>,
     <<"DeprecationWarning", ":", " ", "old", ":", " ", "x">>,
     <<"Error">>,
     <<"line", " ", "1", "2">>,
     <<"Exception", ":">>,
     Empty,
     <<" ">>}

\* pieces a completion text can be made of
ResponsePieces ==
    {FencePy, Fence, <<"\n", "ok", "\n">>, <<" ", "raise">>, <<"text", " ">>}

\* the sequences of at most n elements of S
RECURSIVE SeqsUpTo(_, _)
SeqsUpTo(S, n) ==
    IF n = 0 THEN {<<>>}
    ELSE LET shorter == SeqsUpTo(S, n - 1)
         IN shorter \cup {Append(q, x) : q \in {y \in shorter : Len(y) = n - 1},
                                         x \in S}

\* ''.join(pieces)
RECURSIVE Concat(_)
Concat(pieces) ==
    IF pieces = <<>> THEN Empty ELSE Head(pieces) \o Concat(Tail(pieces))

StderrTexts == {JoinLines(q) : q \in SeqsUpTo(StderrLines, MaxLines)}

Responses == {Concat(q) : q \in SeqsUpTo(ResponsePieces, MaxPieces)}

\* codes submitted to fix_code
Submitted == {<<"raise">>, <<"exit1">>}

\* no repair call is under way
CallIdle ==
    /\ mode = "none"
    /\ env = "ok"
    /\ max_retries = 0
    /\ auto_apply = FALSE
    /\ fs = [target |-> NoFile, backup |-> NoFile]
    /\ pc = "idle"
    /\ code = None
    /\ stderr = Empty
    /\ fixed_code = None
    /\ is_valid = FALSE
    /\ test_stderr = Empty
    /\ attempt = 0
    /\ prompt = NoPrompt
    /\ explanation = Empty
    /\ llmCalls = 0
    /\ execLog = <<>>
    /\ tmpCount = 0
    /\ scratch = {}
    /\ asked = FALSE
    /\ confirmed = FALSE
    /\ result = "none"
    /\ outcome = NoOutcome
    /\ shown = None

InitFn ==
    /\ CallIdle
    /\ MainIdle
    /\ ConcIdle
    /\ WebIdle
    /\ fn = "none"
    /\ arg \in StderrTexts \cup Responses
    /\ sub \in Submitted
    /\ ret = None

\* error_info = self.executor.parse_error(stderr)
Call_parse_error ==
    /\ fn = "none"
    /\ fn' = "parse_error"
    /\ ret' = parse_error(arg)
    /\ UNCHANGED <<arg, sub, callVars, mainVars, concVars, webVars>>

\* app.py 285-296 on stderr
Call_app_parse ==
    /\ fn = "none"
    /\ fn' = "app_parse"
    /\ ret' = app_parse(arg)
    /\ UNCHANGED <<arg, sub, callVars, mainVars, concVars, webVars>>

\* fixed_code = extract_code(response)
Call_extract_code ==
    /\ fn = "none"
    /\ fn' = "extract_code"
    /\ ret' = extract_code(arg)
    /\ UNCHANGED <<arg, sub, callVars, mainVars, concVars, webVars>>

\* app.py 330-336 on response_text, code being the submitted code
Call_app_extract ==
    /\ fn = "none"
    /\ fn' = "app_extract"
    /\ ret' = app_extract(arg, sub)
    /\ UNCHANGED <<arg, sub, callVars, mainVars, concVars, webVars>>

\* what write_file is given to write
FileContents == {<<"ok">>, <<"raise">>, <<>>, <<"sur">>}

\* self.file_handler.write_file(filepath, content) on a target that holds
\* sub or does not exist, with or without an older backup
Call_write_file ==
    /\ fn = "none"
    /\ fn' = "write_file"
    /\ \E target \in {sub, NoFile}, old \in {NoFile, <<"exit1">>},
          content \in FileContents, io \in IOs :
          LET before == [target |-> target, backup |-> old]
              w      == write_file(before, content, io)
          IN ret' = [before |-> before, content |-> content,
                     ok |-> w.ok, fs |-> w.fs]
    /\ UNCHANGED <<arg, sub, callVars, mainVars, concVars, webVars>>

NextFn ==
    \/ Call_parse_error
    \/ Call_app_parse
    \/ Call_extract_code
    \/ Call_app_extract
    \/ Call_write_file

SpecFn == InitFn /\ [][NextFn]_vars

(***************************************************************************)
(* main.py: the command-line entry point, a third specification            *)
(***************************************************************************)
\* the operation selected: --fix, --analyze, --create, --code, --interactive,
\* or no argument at all ("help": the help text, then the interactive mode)
Commands == {"fix", "analyze", "create", "code", "interactive", "help"}

\* FileHandler.create_file(filepath, content): asks before overwriting, then
\* write_file(filepath, content, backup=False)
create_file(files, content, overwrite, io) ==
    IF files.target # NoFile /\ ~overwrite THEN [ok |-> FALSE, fs |-> files]
    ELSE IF io = "open_fails" THEN [ok |-> FALSE, fs |-> files]
    ELSE [ok |-> TRUE, fs |-> [files EXCEPT !.target = content]]

InitMain ==
    /\ cmd \in Commands
    /\ mode = "cli"
    /\ env \in {"ok", "nospawn"}
    /\ max_retries = DefaultRetries
    /\ auto_apply \in BOOLEAN
    /\ perm \in {"readable", "denied"}
    /\ \E src \in Sources \cup {NoFile} :
          /\ cmd \in {"interactive", "help"} => src = NoFile /\ env = "ok"
          /\ cmd = "code" => src # NoFile /\ Truthy(src)
          /\ cmd # "fix" => ~auto_apply
          /\ perm = "denied" => cmd = "analyze" /\ src # NoFile
          /\ fs = [target |-> IF cmd = "code" THEN NoFile ELSE src,
                   backup |-> NoFile]
          /\ code = IF cmd = "code" THEN src ELSE None
    /\ pc = "idle"
    /\ stderr = Empty
    /\ fixed_code = None
    /\ is_valid = FALSE
    /\ test_stderr = Empty
    /\ attempt = 0
    /\ prompt = NoPrompt
    /\ explanation = Empty
    /\ llmCalls = 0
    /\ execLog = <<>>
    /\ tmpCount = 0
    /\ scratch = {}
    /\ asked = FALSE
    /\ confirmed = FALSE
    /\ result = "none"
    /\ outcome = NoOutcome
    /\ shown = None
    /\ FnIdle
    /\ ConcIdle
    /\ WebIdle
    /\ mpc = "init"
    /\ exit = NoExit
    /\ events = {}

\* main.py 95-101: construct the agent
MainInit ==
    /\ mpc = "init"
    /\ \E ctor \in {"ok", "raises"} :
          IF ctor = "raises"
             THEN /\ exit' = 1
                  /\ events' = events \cup {"init_failed"}
                  /\ mpc' = "exited"
             ELSE /\ mpc' = "dispatch"
                  /\ UNCHANGED <<exit, events>>
    /\ UNCHANGED <<cmd, perm, callVars, fnVars, concVars, webVars>>

\* main.py 105-111: --fix, up to the call of fix_file
MainFix ==
    /\ mpc = "dispatch" /\ cmd = "fix"
    /\ IF fs.target = NoFile
          THEN /\ exit' = 1
               /\ events' = events \cup {"missing_file"}
               /\ mpc' = "exited"
               /\ pc' = pc
          ELSE /\ pc' = "start"
               /\ mpc' = "fix_file"
               /\ UNCHANGED <<exit, events>>
    /\ UNCHANGED <<cmd, perm, fnVars, concVars, webVars>>
    /\ UNCHANGED <<mode, env, max_retries, auto_apply, fs, code, stderr,
                   fixed_code, is_valid, test_stderr, attempt, prompt,
                   explanation, llmCalls, execLog, tmpCount, scratch, asked,
                   confirmed, result, outcome, shown>>

\* main.py 111-112 and 179-183: fix_file returned or raised
MainFixReturn ==
    /\ mpc = "fix_file" /\ pc = "done"
    /\ exit' = IF result = "True" THEN 0 ELSE 1
    /\ events' = events \cup (IF result = "True" THEN {}
                              ELSE IF result = "False" THEN {"failed_fix"}
                              ELSE {"exception"})
    /\ mpc' = "exited"
    /\ UNCHANGED <<cmd, perm, callVars, fnVars, concVars, webVars>>

\* main.py 114-126: --analyze
MainAnalyze ==
    /\ mpc = "dispatch" /\ cmd = "analyze"
    /\ \E reply \in Replies \cup {ServiceError} :
          IF fs.target = NoFile
             THEN /\ exit' = 1
                  /\ events' = events \cup {"missing_file"}
                  /\ UNCHANGED <<code, prompt, llmCalls>>
             ELSE LET text == IF perm = "denied" THEN None ELSE read_file(fs)
                  IN /\ code' = text
                     /\ exit' = 0
                     /\ IF Truthy(text)
                           THEN /\ prompt' = create_prompt("analyze", text, None)
                                /\ llmCalls' = llmCalls + 1
                                /\ events' = events \cup
                                      (IF Truthy(generate(reply)) THEN {}
                                       ELSE {"failed_generation"})
                           ELSE /\ events' = events \cup
                                      (IF text = None THEN {"unreadable_file"}
                                       ELSE {})
                                /\ UNCHANGED <<prompt, llmCalls>>
    /\ mpc' = "exited"
    /\ UNCHANGED <<cmd, perm, fnVars, concVars, webVars>>
    /\ UNCHANGED <<mode, env, max_retries, auto_apply, fs, pc, stderr,
                   fixed_code, is_valid, test_stderr, attempt, explanation,
                   execLog, tmpCount, scratch, asked, confirmed, result,
                   outcome, shown>>

\* main.py 128-131 with DebugAgent.create_code (agent.py 175-219); the file
\* named by --output is fs.target, fixed_code holds the generated code
MainCreate ==
    /\ mpc = "dispatch" /\ cmd = "create"
    /\ \E reply \in Replies \cup {ServiceError}, output \in BOOLEAN,
          overwrite \in BOOLEAN, io \in IOs :
          LET response  == generate(reply)
              generated == extract_code(response)
              r         == execute_code(generated, env)
          IN /\ prompt' = create_prompt("create", <<"description">>, None)
             /\ llmCalls' = llmCalls + 1
             /\ IF ~Truthy(response)
                   THEN /\ exit' = 1
                        /\ events' = events \cup {"failed_generation"}
                        /\ UNCHANGED <<fixed_code, execLog, tmpCount, scratch,
                                       is_valid, test_stderr, fs>>
                   ELSE /\ fixed_code' = generated
                        /\ execLog' = Append(execLog,
                                             LogEntry("generated", generated, r))
                        /\ tmpCount' = tmpCount + 1
                        /\ scratch' = IF r.leftover
                                         THEN scratch \cup {tmpCount + 1}
                                         ELSE scratch
                        /\ IF r.raised
                              THEN /\ exit' = 1
                                   /\ events' = events \cup {"exception"}
                                   /\ UNCHANGED <<is_valid, test_stderr, fs>>
                              ELSE /\ is_valid' = r.success
                                   /\ test_stderr' = r.stderr
                                   /\ fs' = IF r.success /\ output
                                               THEN create_file(fs, generated,
                                                                overwrite, io).fs
                                               ELSE fs
                                   /\ exit' = IF Truthy(generated) THEN 0 ELSE 1
                                   /\ events' = events
    /\ mpc' = "exited"
    /\ UNCHANGED <<cmd, perm, fnVars, concVars, webVars>>
    /\ UNCHANGED <<mode, env, max_retries, auto_apply, pc, code, stderr,
                   attempt, explanation, asked, confirmed, result, outcome,
                   shown>>

\* main.py 133-161: --code
MainCode ==
    /\ mpc = "dispatch" /\ cmd = "code"
    /\ \E reply \in Replies \cup {ServiceError} :
          LET r     == execute_code(code, env)
              fixed == generate(reply)
          IN /\ execLog' = Append(execLog, LogEntry("inline", code, r))
             /\ tmpCount' = tmpCount + 1
             /\ scratch' = IF r.leftover THEN scratch \cup {tmpCount + 1}
                           ELSE scratch
             /\ IF r.raised
                   THEN /\ exit' = 1
                        /\ events' = events \cup {"exception"}
                        /\ UNCHANGED <<stderr, prompt, llmCalls, fixed_code>>
                ELSE IF r.success
                   THEN /\ exit' = 0
                        /\ stderr' = r.stderr
                        /\ UNCHANGED <<events, prompt, llmCalls, fixed_code>>
                ELSE /\ exit' = 0
                     /\ stderr' = r.stderr
                     /\ prompt' = create_prompt("fix", code, r.stderr)
                     /\ llmCalls' = llmCalls + 1
                     /\ fixed_code' = IF Truthy(fixed) THEN extract_code(fixed)
                                      ELSE fixed_code
                     /\ events' = events \cup (IF Truthy(fixed) THEN {}
                                               ELSE {"failed_generation"})
    /\ mpc' = "exited"
    /\ UNCHANGED <<cmd, perm, fnVars, concVars, webVars>>
    /\ UNCHANGED <<mode, env, max_retries, auto_apply, fs, pc, code, is_valid,
                   test_stderr, attempt, explanation, asked, confirmed,
                   result, outcome, shown>>

\* main.py 163-173: the interactive mode, entered by --interactive or by no
\* argument; the session ends when the user leaves it
MainInteractive ==
    /\ mpc = "dispatch" /\ cmd \in {"interactive", "help"}
    /\ exit' = 0
    /\ mpc' = "exited"
    /\ UNCHANGED <<cmd, perm, events, callVars, fnVars, concVars, webVars>>

\* main.py 175-177: KeyboardInterrupt reaches main while the operation runs
MainInterrupt ==
    /\ \/ mpc = "dispatch"
       \/ mpc = "fix_file" /\ pc # "done"
    /\ exit' = 130
    /\ events' = events \cup {"interrupted"}
    /\ mpc' = "exited"
    /\ pc' = IF mpc = "fix_file" THEN "done" ELSE pc
    /\ result' = IF mpc = "fix_file" THEN "KeyboardInterrupt" ELSE result
    /\ UNCHANGED <<cmd, perm, fnVars, concVars, webVars>>
    /\ UNCHANGED <<mode, env, max_retries, auto_apply, fs, code, stderr,
                   fixed_code, is_valid, test_stderr, attempt, prompt,
                   explanation, llmCalls, execLog, tmpCount, scratch, asked,
                   confirmed, outcome, shown>>

NextMain ==
    \/ MainInit
    \/ MainFix
    \/ FixRead
    \/ FixExecute
    \/ FixParse
    \/ FixAttempt
    \/ FixVerify
    \/ FixRetry
    \/ FixReverify
    \/ FixLoopEnd
    \/ FixCheck
    \/ FixApply
    \/ MainFixReturn
    \/ MainAnalyze
    \/ MainCreate
    \/ MainCode
    \/ MainInteractive
    \/ MainInterrupt

SpecMain == InitMain /\ [][NextMain]_vars

(***************************************************************************)
(* Two fix_file calls at the same time, each on its own file, sharing the  *)
(* directory of scratch files: a fourth specification.  Each call is given *)
(* auto_apply=True and an agent with max_retries=ConcRetries.              *)
(***************************************************************************)
\* contents of the two target files
ConcSources == {<<"raise">>, <<"loop">>}

\* what the completion service answers to a call
ConcReplies == {RespPyOk, RespPyRaise, ServiceError}

\* tempfile.NamedTemporaryFile(suffix='.py', delete=False): the names the
\* new file can get; the file is created exclusively, never over an
\* existing one
NamedTemporaryFile_Reusing(dir) == TmpNames

NamedTemporaryFile(dir) == {n \in TmpNames : dir[n] = Absent}

\* the interpreter started on a path at which there is no file
CannotOpen ==
    [success |-> FALSE, stdout |-> Empty,
     stderr |-> <<"cannot", " ", "open", " ", "file">>,
     raised |-> FALSE, leftover |-> FALSE, spawns |-> 1]

\* a call that has not started, on a file holding src
InitCall(src) ==
    [pc |-> "start", source |-> src, target |-> src, stderr |-> Empty,
     fixed_code |-> None, is_valid |-> FALSE, test_stderr |-> Empty,
     runs |-> 0, replies |-> <<>>, tmp_path |-> 0, result |-> "none",
     foreign |-> FALSE]

InitConc ==
    /\ CallIdle
    /\ FnIdle
    /\ MainIdle
    /\ WebIdle
    /\ tmpdir = [n \in TmpNames |-> Absent]
    /\ calls \in [Calls -> {InitCall(src) : src \in ConcSources}]

\* agent.py 59-80: read and execute the file, classify its stderr
ConcExecute(c) ==
    /\ calls[c].pc = "start"
    /\ LET me   == calls[c]
           r    == execute_file(me.source, env)
           info == parse_error(r.stderr)
       IN calls' = [calls EXCEPT ![c] =
             IF ~Truthy(me.source)
                THEN [me EXCEPT !.pc = "done", !.result = "False"]
             ELSE IF r.success
                THEN [me EXCEPT !.pc = "done", !.result = "True"]
             ELSE IF "line" \notin DOMAIN info
                THEN [me EXCEPT !.pc = "done", !.result = "KeyError"]
             ELSE [me EXCEPT !.pc = "request", !.stderr = r.stderr]]
    /\ UNCHANGED <<tmpdir, callVars, fnVars, mainVars, webVars>>

\* agent.py 83-87 and 99-102: _attempt_fix
ConcRequest(c) ==
    /\ calls[c].pc = "request"
    /\ \E reply \in ConcReplies :
          LET me    == calls[c]
              fixed == attempt_fix(reply)
              asked_  == [me EXCEPT !.replies = Append(me.replies, reply),
                                    !.fixed_code = fixed]
          IN calls' = [calls EXCEPT ![c] =
                IF me.runs = 0 /\ ~Truthy(fixed)
                   THEN [asked_ EXCEPT !.pc = "done", !.result = "False"]
                   ELSE [asked_ EXCEPT !.pc = "create"]]
    /\ UNCHANGED <<tmpdir, callVars, fnVars, mainVars, webVars>>

\* code_executor.py 85-90: the scratch file is created
ConcCreate(c) ==
    /\ calls[c].pc = "create"
    /\ \E n \in NamedTemporaryFile(tmpdir) :
          /\ tmpdir' = [tmpdir EXCEPT ![n] = [content |-> Empty, owner |-> c]]
          /\ calls' = [calls EXCEPT ![c].tmp_path = n, ![c].pc = "write"]
    /\ UNCHANGED <<callVars, fnVars, mainVars, webVars>>

\* code_executor.py 91-92: the candidate is written and the file closed
ConcWrite(c) ==
    /\ calls[c].pc = "write"
    /\ LET me == calls[c]
       IN IF WriteRaises(me.fixed_code)
             THEN /\ calls' = [calls EXCEPT
                                  ![c].pc = "done",
                                  ![c].result = WriteException(me.fixed_code)]
                  /\ tmpdir' = tmpdir
             ELSE /\ tmpdir' = [tmpdir EXCEPT ![me.tmp_path] =
                                   [content |-> me.fixed_code, owner |-> c]]
                  /\ calls' = [calls EXCEPT ![c].pc = "run"]
    /\ UNCHANGED <<callVars, fnVars, mainVars, webVars>>

\* code_executor.py 94-97: execute_file(tmp_path) runs what the path holds
ConcRun(c) ==
    /\ calls[c].pc = "run"
    /\ LET me   == calls[c]
           file == tmpdir[me.tmp_path]
           r    == IF file = Absent THEN CannotOpen
                   ELSE execute_file(file.content, env)
       IN calls' = [calls EXCEPT ![c] =
             [me EXCEPT !.is_valid = r.success,
                        !.test_stderr = r.stderr,
                        !.runs = me.runs + 1,
                        !.foreign = me.foreign \/ file.owner # c,
                        !.pc = "unlink"]]
    /\ UNCHANGED <<tmpdir, callVars, fnVars, mainVars, webVars>>

\* code_executor.py 99-101: Path(tmp_path).unlink(missing_ok=True), then
\* agent.py 93-111: break, retry or give up
ConcUnlink(c) ==
    /\ calls[c].pc = "unlink"
    /\ LET me   == calls[c]
           file == tmpdir[me.tmp_path]
           gone == [me EXCEPT !.tmp_path = 0,
                              !.foreign = me.foreign
                                 \/ (file # Absent /\ file.owner # c)]
       IN /\ tmpdir' = [tmpdir EXCEPT ![me.tmp_path] = Absent]
          /\ calls' = [calls EXCEPT ![c] =
                IF me.is_valid THEN [gone EXCEPT !.pc = "apply"]
                ELSE IF LoopContinues(me.runs - 1, ConcRetries)
                   THEN [gone EXCEPT !.pc = "request"]
                ELSE [gone EXCEPT !.pc = "done", !.result = "False"]]
    /\ UNCHANGED <<callVars, fnVars, mainVars, webVars>>

\* agent.py 113-120: auto_apply writes the candidate to the call's own file
ConcApply(c) ==
    /\ calls[c].pc = "apply"
    /\ calls' = [calls EXCEPT ![c].target = calls[c].fixed_code,
                              ![c].pc = "done",
                              ![c].result = "True"]
    /\ UNCHANGED <<tmpdir, callVars, fnVars, mainVars, webVars>>

NextConc ==
    \E c \in Calls :
        \/ ConcExecute(c)
        \/ ConcRequest(c)
        \/ ConcCreate(c)
        \/ ConcWrite(c)
        \/ ConcRun(c)
        \/ ConcUnlink(c)
        \/ ConcApply(c)

SpecConc == InitConc /\ [][NextConc]_vars

\* fix_file run alone from its k-th request on, the service answering
\* replies[k], replies[k + 1], ...: the value returned (or the exception) and
\* the number of requests made
RECURSIVE alone_from(_, _)
alone_from(replies, k) ==
    LET candidate == attempt_fix(replies[k])
        r         == execute_code(candidate, env)
    IN IF k = 1 /\ ~Truthy(candidate)
          THEN [result |-> "False", requests |-> k]
       ELSE IF r.raised
          THEN [result |-> WriteException(candidate), requests |-> k]
       ELSE IF r.success
          THEN [result |-> "True", requests |-> k]
       ELSE IF ~LoopContinues(k - 1, ConcRetries)
          THEN [result |-> "False", requests |-> k]
       ELSE IF k < Len(replies)
          THEN alone_from(replies, k + 1)
       ELSE [result |-> "more", requests |-> k + 1]

\* fix_file(filepath, auto_apply=True) run alone on a file holding src
fix_file_alone(src, replies) ==
    LET r == execute_file(src, env)
    IN IF ~Truthy(src) THEN [result |-> "False", requests |-> 0]
       ELSE IF r.success THEN [result |-> "True", requests |-> 0]
       ELSE IF "line" \notin DOMAIN parse_error(r.stderr)
          THEN [result |-> "KeyError", requests |-> 0]
       ELSE IF replies = <<>> THEN [result |-> "more", requests |-> 1]
       ELSE alone_from(replies, 1)

(***************************************************************************)
(* app.py as a script: a fifth specification.  Streamlit executes the file *)
(* top to bottom, in a fresh module namespace, once when the page opens    *)
(* and once more after every interaction with a widget; st.session_state   *)
(* is what lasts from one run to the next.                                 *)
(***************************************************************************)
\* what the api_key text input holds
ApiKeys == {Empty, <<"key">>}

\* the three Fix buttons
Buttons == {"fix_upload", "fix_paste", "fix_example"}

\* what the uploaded file or the text area holds
WebCodes == {<<"raise">>, <<"ok">>}

\* examples[selected_example]: each of the four raises when run
ExampleCode == <<"raise">>

\* fix_code(code, api_key), the service answering reply: the record returned
fix_code(submitted, reply) ==
    LET exec_result == app_execute_code(submitted, env)
        info        == app_parse(exec_result.stderr)
        fixed       == app_extract(reply, submitted)
    IN IF exec_result.success
          THEN [has_error |-> FALSE, fixed_code |-> submitted,
                error_type |-> None, error_message |-> None]
       ELSE IF reply = ServiceError
          THEN [has_error     |-> TRUE,
                fixed_code    |-> None,
                error_type    |-> info.error_type,
                error_message |-> info.error_message,
                explanation   |-> <<"Failed", " ", "to", " ", "generate",
                                    " ", "fix">>]
       ELSE [has_error     |-> TRUE,
             fixed_code    |-> fixed,
             error_type    |-> info.error_type,
             error_message |-> info.error_message,
             explanation   |-> app_explanation(reply),
             fix_verified  |-> app_execute_code(fixed, env).success]

InitWeb ==
    /\ CallIdle
    /\ FnIdle
    /\ MainIdle
    /\ ConcIdle
    /\ session = <<>>
    /\ names = {}
    /\ at = "idle"
    /\ run = NoRun
    /\ nruns = 0

\* a run starts (app.py 1-66): the page is opened, or a widget was used; no
\* button is pressed in the run that opens the page
ScriptStart ==
    /\ at = "idle"
    /\ nruns < MaxRuns
    /\ \E key \in ApiKeys, pressed \in Buttons \cup {"none"}, text \in WebCodes :
          /\ nruns = 0 => pressed = "none"
          /\ run' = [api_key |-> key,
                     pressed |-> pressed,
                     code    |-> IF pressed = "fix_example" THEN ExampleCode
                                 ELSE text,
                     before  |-> session,
                     called  |-> <<>>,
                     error   |-> "none"]
    /\ names' = {}
    /\ nruns' = nruns + 1
    /\ at' = "sidebar"
    /\ session' = session
    /\ UNCHANGED <<callVars, fnVars, mainVars, concVars>>

\* app.py 69-107: the sidebar; fixes_count is created at 0
ScriptSidebar ==
    /\ at = "sidebar"
    /\ session' = IF "fixes_count" \in DOMAIN session THEN session
                  ELSE ("fixes_count" :> 0) @@ session
    /\ at' = "tab1"
    /\ UNCHANGED <<names, run, nruns, callVars, fnVars, mainVars, concVars>>

\* the body of `if st.button(...)`, the same under the three buttons
\* (app.py 127-136, 151-160, 176-185); then the script goes on at next
Handler(button, next) ==
    IF run.pressed # button
       THEN at' = next /\ UNCHANGED <<session, run>>
    ELSE IF ~Truthy(run.api_key)
       THEN at' = next /\ UNCHANGED <<session, run>>
    ELSE IF "fix_code" \notin names
       THEN /\ run' = [run EXCEPT !.error = "NameError"]
            /\ at' = "idle"
            /\ session' = session
    ELSE \E reply \in Replies \cup {ServiceError} :
            /\ run' = [run EXCEPT !.called = Append(run.called, run.code)]
            /\ session' = ("result" :> fix_code(run.code, reply))
                          @@ ("original_code" :> run.code)
                          @@ ("fixes_count" :> session["fixes_count"] + 1)
                          @@ session
            /\ at' = "idle"

\* app.py 112-136: the upload tab
ScriptUpload ==
    /\ at = "tab1"
    /\ Handler("fix_upload", "tab2")
    /\ UNCHANGED <<names, nruns, callVars, fnVars, mainVars, concVars>>

\* app.py 138-160: the paste tab
ScriptPaste ==
    /\ at = "tab2"
    /\ Handler("fix_paste", "tab3")
    /\ UNCHANGED <<names, nruns, callVars, fnVars, mainVars, concVars>>

\* app.py 162-185: the examples tab
ScriptExample ==
    /\ at = "tab3"
    /\ Handler("fix_example", "results")
    /\ UNCHANGED <<names, nruns, callVars, fnVars, mainVars, concVars>>

\* app.py 187-232: the results view, then 235-363: the two def statements
\* bind execute_code and fix_code, and the run ends
ScriptDefine ==
    /\ at = "results"
    /\ names' = names \cup {"execute_code", "fix_code"}
    /\ at' = "idle"
    /\ UNCHANGED <<session, run, nruns, callVars, fnVars, mainVars, concVars>>

NextWeb ==
    \/ ScriptStart
    \/ ScriptSidebar
    \/ ScriptUpload
    \/ ScriptPaste
    \/ ScriptExample
    \/ ScriptDefine

SpecWeb == InitWeb /\ [][NextWeb]_vars

(***************************************************************************)
(* Properties                                                              *)
(***************************************************************************)
Done == pc = "done"

\* the child started on text ends with exit status 0
Exits0(text) == env = "ok" /\ PythonRun(text).ends /\ PythonRun(text).rc = 0

\* the original source was executed and failed
OriginalFailed ==
    /\ Len(execLog) >= 1
    /\ execLog[1].what = "original"
    /\ ~execLog[1].r.success

\* positions in execLog of the candidate executions
CandidateRuns == {i \in 1 .. Len(execLog) : execLog[i].what = "candidate"}

\* fix_file returned (True or False) instead of raising
Returned == result \in {"True", "False"}

\* C1: a source text whose execution exits with status 0, the empty text
\* included, is reported as a success with no error, and no request is made
\* to the completion service.
C1_SuccessfulSourceReportsSuccess ==
    (Done /\ code # None /\ Exits0(code)) =>
        /\ llmCalls = 0
        /\ mode = "cli" => result = "True"
        /\ mode = "web" => ~outcome.has_error /\ outcome.fixed_code = code

\* C2: when the original source failed, a verified fix is reported only for
\* the exact text that was executed after the last completion and whose
\* child exited with status 0; fix_file returns True only with that text
\* written to the file.
C2_VerifiedOnlyAfterExecution ==
    /\ (mode = "cli" /\ result = "True" /\ OriginalFailed) =>
          /\ fs.target = fixed_code
          /\ \E i \in CandidateRuns :
                /\ execLog[i].text = fixed_code
                /\ execLog[i].after = llmCalls
                /\ execLog[i].r.success
                /\ Exits0(execLog[i].text)
    /\ (mode = "web" /\ "fix_verified" \in DOMAIN outcome /\ outcome.fix_verified) =>
          \E i \in CandidateRuns :
             /\ execLog[i].text = outcome.fixed_code
             /\ execLog[i].after = llmCalls
             /\ execLog[i].r.success
             /\ Exits0(execLog[i].text)

C2_Witness ==
    /\ mode = "cli" /\ result = "True" /\ OriginalFailed
    /\ llmCalls = 2

\* C3: whenever the original source failed, a finished fix_file call has made
\* at least 1 and at most max_retries requests, each followed by at most one
\* execution of a candidate.
C3_AttemptsWithinBound ==
    (mode = "cli" /\ Done /\ OriginalFailed) =>
        /\ 1 <= llmCalls
        /\ llmCalls <= max_retries
        /\ Cardinality(CandidateRuns) <= llmCalls

\* candidates were returned, one per request, and every one failed when run
EveryCandidateFailed ==
    /\ llmCalls >= 1
    /\ Cardinality(CandidateRuns) = llmCalls
    /\ \A i \in CandidateRuns : ~execLog[i].r.raised /\ ~execLog[i].r.success

\* C4: if the original source failed and every candidate failed too, fix_file
\* ends having made exactly max_retries attempts and reports failure.
C4_ExhaustsExactlyMaxRetries ==
    (mode = "cli" /\ Done /\ OriginalFailed /\ EveryCandidateFailed) =>
        /\ llmCalls = max_retries
        /\ result = "False"

\* C5: the loop stops at the first candidate that runs: if candidate k
\* (1 <= k <= max_retries) was written to its scratch file and its execution
\* exits with status 0, then exactly k requests and k candidate executions
\* were made, none follows, the current candidate is candidate k, and
\* whatever fix_file writes to the file is candidate k.
C5_StopsAtFirstSuccess ==
    mode = "cli" =>
        \A i \in CandidateRuns :
            (i - 1 <= max_retries /\ ~execLog[i].r.raised
                /\ Exits0(execLog[i].text)) =>
                /\ i = Len(execLog)
                /\ llmCalls = i - 1
                /\ Cardinality(CandidateRuns) = i - 1
                /\ execLog[i].after = i - 1
                /\ fixed_code = execLog[i].text
                /\ fs.target \in {code, NoFile, execLog[i].text}
                /\ result = "True" => fs.target = execLog[i].text

\* C6: when a request to the completion service fails, at the first attempt
\* or at a retry, the call ends at once with a failure outcome: it returns
\* (does not raise) and no execution follows the failed request.
C6_ServiceFailureAborts ==
    (llmCalls > 0 /\ fixed_code = None /\ pc \in {"render", "done"}) =>
        /\ mode = "cli" => result = "False"
        /\ mode = "web" => outcome.has_error /\ outcome.fixed_code = None
        /\ \A i \in CandidateRuns : execLog[i].after < llmCalls

\* C7: no scratch file is left behind once an execution has returned or
\* raised.
C7_ScratchAlwaysDeleted == scratch = {}

\* C8: for every failing original execution, whatever its stderr,
\* classification does not raise and fix_file requests a fix; fix_file never
\* ends by raising.
C8_ClassificationNeverRaises ==
    /\ (mode = "cli" /\ Done) => Returned
    /\ (mode = "cli" /\ Done /\ OriginalFailed) => llmCalls >= 1

\* a candidate was executed and ran
SomeCandidateVerified == \E i \in CandidateRuns : execLog[i].r.success

\* C9: the outcome carries a final source, and the results view presents
\* one, only if a candidate was verified by a successful execution or the
\* original source already ran.
C9_FinalSourceOnlyIfVerified ==
    (mode = "web" /\ Done) =>
        /\ outcome.fixed_code # None =>
              ~outcome.has_error \/ SomeCandidateVerified
        /\ shown # None => SomeCandidateVerified

\* C10: execute_file returns instead of raising, after exactly one
\* subprocess.run: success exactly when the child exited with status 0;
\* (False, "", "Execution timed out after <Timeout> seconds") when the child
\* outlived the timeout; (False, "", a diagnostic) when it could not be
\* started.
C10_ExecuteFileTotal ==
    mode = "cli" =>
        \A i \in 1 .. Len(execLog) :
            LET e     == execLog[i]
                child == PythonRun(e.text)
            IN /\ e.what = "original" => ~e.r.raised
               /\ ~e.r.raised =>
                     /\ e.r.spawns = 1
                     /\ e.r.success <=> Exits0(e.text)
                     /\ (env = "ok" /\ ~child.ends) =>
                           /\ ~e.r.success
                           /\ e.r.stdout = Empty
                           /\ e.r.stderr =
                                 <<"Execution", " ", "timed", " ", "out", " ",
                                   "after", " ", ToString(Timeout), " ",
                                   "seconds">>
                     /\ env = "nospawn" =>
                           /\ ~e.r.success
                           /\ e.r.stdout = Empty
                           /\ e.r.stderr # Empty

\* positions in execLog of the executions that reported a spawn failure
SpawnFailures ==
    {i \in 1 .. Len(execLog) : env = "nospawn" /\ execLog[i].r.spawns = 1}

\* C11: a spawn failure ends the whole fix_file call: the execution that
\* reported it is the last one made and no completion request follows it.
C11_SpawnFailureTerminal ==
    mode = "cli" =>
        \A i \in SpawnFailures :
            /\ i = Len(execLog)
            /\ llmCalls = execLog[i].after

\* the lines of a text, as the text has them
LinesOf(t) == SplitLines(t)

\* a line that contains a colon and one of Error, Exception, Warning
IsClassificationLine(line) ==
    /\ \E i \in 1 .. Len(line) : line[i] = ":"
    /\ \E i \in 1 .. Len(line) :
          HasError(line[i]) \/ HasException(line[i]) \/ HasWarning(line[i])

\* positions of the classification lines of a text
ClassificationLines(t) ==
    {i \in 1 .. Len(LinesOf(t)) : IsClassificationLine(LinesOf(t)[i])}

\* the classification line of a text that has one: the last such line
ClassificationLine(t) == LinesOf(t)[Max(ClassificationLines(t))]

\* position of the first colon of a line that has one
FirstColon(line) == Min({i \in 1 .. Len(line) : line[i] = ":"})

\* kind and message of the record a classifier returned
KindOf(r) == IF "type" \in DOMAIN r THEN r.type ELSE r.error_type

MessageOf(r) == IF "message" \in DOMAIN r THEN r.message ELSE r.error_message

\* C12: for a non-empty stderr with a classification line, the kind is the
\* trimmed text before the first colon of the last line that holds a colon
\* and one of Error, Exception, Warning, and the message the trimmed text
\* after that colon; this for parse_error and for the classifier of fix_code.
C12_ClassificationLine ==
    (fn \in {"parse_error", "app_parse"} /\ arg # Empty
        /\ ClassificationLines(arg) # {}) =>
        LET line == ClassificationLine(arg)
            c    == FirstColon(line)
        IN /\ KindOf(ret) = Strip(SubSeq(line, 1, c - 1))
           /\ MessageOf(ret) = Strip(SubSeq(line, c + 1, Len(line)))

\* C13: for a non-empty stderr without a classification line, parse_error
\* returns kind "Unknown" and the whole input as message.
C13_UnknownKeepsFullText ==
    (fn = "parse_error" /\ arg # Empty /\ ClassificationLines(arg) = {}) =>
        /\ ret.type = <<"Unknown">>
        /\ ret.message = arg

\* the number that follows the word line (in any case) and a space in a
\* line, NoLine when the line has none
LineNumberOf(line) ==
    LET hits == {i \in 1 .. Len(line) - 2 :
                    /\ line[i] \in {"line", "Line", "LINE"}
                    /\ line[i + 1] = " "
                    /\ line[i + 2] \in Digits}
    IN IF hits = {} THEN NoLine ELSE DigitsValue(line, Min(hits) + 2, 0)

\* positions of the lines of a text that hold a line number
NumberedLines(t) ==
    {i \in 1 .. Len(LinesOf(t)) : LineNumberOf(LinesOf(t)[i]) # NoLine}

\* C14: the source line parse_error returns is the number of the first line,
\* in forward order, that holds the word line (in any case) followed by a
\* number, and is unset when there is no such line.
C14_FirstLineNumberWins ==
    (fn = "parse_error" /\ "line" \in DOMAIN ret) =>
        ret.line = IF NumberedLines(arg) = {} THEN NoLine
                   ELSE LineNumberOf(LinesOf(arg)[Min(NumberedLines(arg))])

\* C15: every record parse_error returns has the kind, message and
\* source-line fields; for the empty text they are "NoError", "" and unset.
C15_RecordIsComplete ==
    fn = "parse_error" =>
        /\ {"type", "message", "line"} \subseteq DOMAIN ret
        /\ arg = Empty =>
              /\ ret.type = <<"NoError">>
              /\ ret.message = Empty
              /\ ret.line = NoLine

\* positions (0-based) at which a fence opened by marker is closed later
CompleteBlocks(t, marker) ==
    {i \in 0 .. Len(t) :
        /\ i + Len(marker) <= Len(t)
        /\ SubSeq(t, i + 1, i + Len(marker)) = marker
        /\ \E j \in i + Len(marker) .. Len(t) - Len(Fence) :
              SubSeq(t, j + 1, j + Len(Fence)) = Fence}

\* the content of the first complete block opened by marker
BlockContent(t, marker) ==
    LET i == Min(CompleteBlocks(t, marker))
        j == Min({k \in i + Len(marker) .. Len(t) - Len(Fence) :
                     SubSeq(t, k + 1, k + Len(Fence)) = Fence})
    IN SubSeq(t, i + Len(marker) + 1, j)

\* the candidate a completion text holds
Candidate(t) ==
    IF CompleteBlocks(t, FencePy) # {} THEN Strip(BlockContent(t, FencePy))
    ELSE IF CompleteBlocks(t, Fence) # {} THEN Strip(BlockContent(t, Fence))
    ELSE Strip(t)

\* C16: extraction returns the trimmed content of the first complete python
\* block, else of the first complete block of any kind, else the trimmed
\* response; a result taken from a block holds no fence and no leading or
\* trailing whitespace; this for extract_code and for extraction in fix_code.
C16_ExtractionPrefersPythonBlock ==
    fn \in {"extract_code", "app_extract"} =>
        /\ ret = Candidate(arg)
        /\ CompleteBlocks(arg, Fence) # {} =>
              /\ ~Contains(ret, Fence)
              /\ ret = Strip(ret)

\* f"Previous fix failed with: {test_stderr}" for this stderr
PreviousFixFailed(text) ==
    <<"Previous", " ", "fix", " ", "failed", " ", "with", ":", " ">> \o text

\* C19: the prompt of request n >= 2 is built from candidate n-1 and from
\* the stderr of the failed execution of candidate n-1 (behind the words
\* "Previous fix failed with: "), not from the original source and error.
C19_RetryPromptFromLastCandidate ==
    (mode = "cli" /\ llmCalls >= 2) =>
        LET last == execLog[llmCalls]
        IN /\ last.what = "candidate"
           /\ last.after = llmCalls - 1
           /\ ~last.r.success
           /\ prompt.code = last.text
           /\ prompt.error = PreviousFixFailed(last.r.stderr)

C19_Witness ==
    /\ mode = "cli" /\ llmCalls = 3
    /\ code = <<"raise">>
    /\ execLog[3].text = <<"loop">>
    /\ prompt.code = <<"loop">>
    /\ prompt.error = PreviousFixFailed(TimeoutMsg)

\* the target file holds what fix_file read and no backup exists
FileSystemUnchanged ==
    /\ fs.backup = NoFile
    /\ pc # "start" => read_file(fs) = code

\* the current candidate was executed after the last request and ran
CandidateVerified ==
    /\ is_valid
    /\ \E i \in CandidateRuns :
          /\ execLog[i].text = fixed_code
          /\ execLog[i].after = llmCalls
          /\ execLog[i].r.success

\* fix_file returned without writing: the original ran, no fix was
\* generated, every attempt failed, or the user declined
ReturnedWithoutApplying ==
    /\ Done /\ Returned
    /\ \/ ~OriginalFailed
       \/ llmCalls >= 1 /\ CandidateRuns = {}
       \/ ~is_valid
       \/ asked /\ ~confirmed

\* C20: fix_file changes the target file or creates a backup only when the
\* candidate was verified by a successful execution and auto_apply is set or
\* the user confirmed; with auto_apply the user is never asked; when the
\* original ran, no fix was generated, every attempt failed or the user
\* declined, the target, the backup and the scratch directory are as before.
C20_WritesOnlyWhenVerifiedAndAgreed ==
    mode = "cli" =>
        /\ auto_apply => ~asked
        /\ ~FileSystemUnchanged =>
              /\ CandidateVerified
              /\ auto_apply \/ (asked /\ confirmed)
        /\ ReturnedWithoutApplying => FileSystemUnchanged /\ scratch = {}

C20_Witness ==
    /\ mode = "cli" /\ Done /\ ~auto_apply
    /\ asked /\ confirmed
    /\ OriginalFailed
    /\ fs.backup = code
    /\ fs.target = fixed_code
    /\ fixed_code # code

\* the failures of an operation: a missing or unreadable file, a failed fix,
\* a failed generation, an exception
Failures ==
    {"init_failed", "missing_file", "unreadable_file", "failed_fix",
     "failed_generation", "exception"}

\* C17: main returns 0 only when the operation succeeded, 1 when it failed,
\* and 130 when it was interrupted, whatever the operation selected.
C17_ExitCodes ==
    exit # NoExit =>
        /\ exit \in {0, 1, 130}
        /\ exit = 0 => events \cap Failures = {}
        /\ (exit = 0 /\ cmd = "fix") => result = "True"
        /\ (events \cap Failures # {}) => exit = 1
        /\ "interrupted" \in events <=> exit = 130

\* C18: in every interleaving of two calls on different files, each call
\* runs only scratch files holding what it wrote itself and deletes only its
\* own, the two calls never hold the same scratch path, and a finished call
\* returned what it returns when run alone, after as many requests.
C18_ConcurrentCallsIndependent ==
    calls[1].pc # "idle" =>
        /\ \A c \in Calls : ~calls[c].foreign
        /\ (calls[1].tmp_path # 0 /\ calls[2].tmp_path # 0) =>
              calls[1].tmp_path # calls[2].tmp_path
        /\ \A c \in Calls :
              calls[c].pc = "done" =>
                 LET alone == fix_file_alone(calls[c].source, calls[c].replies)
                 IN /\ calls[c].result = alone.result
                    /\ Len(calls[c].replies) = alone.requests

C18_Witness ==
    /\ calls[1].pc = "run" /\ calls[2].pc = "run"
    /\ calls[1].runs = 1 /\ calls[2].runs = 0
    /\ calls[1].fixed_code = <<"ok">> /\ calls[2].fixed_code = <<"raise">>
    /\ tmpdir[calls[1].tmp_path].content = <<"ok">>
    /\ tmpdir[calls[2].tmp_path].content = <<"raise">>

\* C21: write_file with backup on an existing target never loses the prior
\* content: after the call, True or False, it is at the backup path or still
\* at the target path; on True the target holds exactly the new content and
\* the backup exactly the prior content.
C21_PriorContentKept ==
    (fn = "write_file" /\ ret.before.target # NoFile) =>
        LET prior == ret.before.target
        IN /\ prior \in {ret.fs.backup, ret.fs.target}
           /\ ret.ok => /\ ret.fs.target = ret.content
                        /\ ret.fs.backup = prior

C21_Witness ==
    /\ fn = "write_file"
    /\ ret.before = [target |-> <<"raise">>, backup |-> <<"exit1">>]
    /\ ret.content = <<"sur">>
    /\ ~ret.ok
    /\ ret.fs = [target |-> <<>>, backup |-> <<"raise">>]

\* C22: extract_code is idempotent: extracting again from an extracted
\* candidate gives the same candidate.
C22_ExtractCodeIdempotent ==
    fn = "extract_code" => extract_code(ret) = ret

C22_Witness ==
    /\ fn = "extract_code"
    /\ arg = <<"text", " ">> \o FencePy \o <<"\n", "ok", "\n">> \o Fence \o Fence
    /\ ret = <<"ok">>
    /\ extract_code(ret) = <<"ok">>

\* C23: a run of the web app's script in which a Fix button is pressed with
\* a non-empty API key calls fix_code on the submitted code, stores the
\* result and the original code in the session state and adds exactly 1 to
\* the fixes counter; fix_code is defined where the call happens.
C23_PressedFixIsHandled ==
    (at = "idle" /\ run.pressed \in Buttons /\ Truthy(run.api_key)) =>
        /\ run.error # "NameError"
        /\ run.called = <<run.code>>
        /\ "result" \in DOMAIN session
        /\ "original_code" \in DOMAIN session
        /\ session["original_code"] = run.code
        /\ session["fixes_count"] = run.before["fixes_count"] + 1

====
